---- MODULE Spec2Model ----
(***************************************************************************)
(* Model of the data-classification notebook (src/unnamed/part_000): the   *)
(* population table pop_1km, the custom classifier classify_population    *)
(* and the cell that applies it to the POP column, row by row, and stores  *)
(* the outcome as the POP_class column (Spec); the cells of that notebook  *)
(* run in order (NotebookSpec); and the overlay notebook (src/L_4_1.ipynb) *)
(* up to its intersection (OverlaySpec).                                   *)
(***************************************************************************)
EXTENDS Integers, Sequences, FiniteSets, TLC

\* ------------------------------------------------------------------ bounds

\* Largest number of records of pop_1km that is explored.
MaxRows == 4

\* Largest number of records of pop_1km when the whole notebook is run.
NotebookRows == 3

\* ------------------------------------------------------------------ state

VARIABLES
    pop_1km,    \* the table: column name -> the column's values, in record order
    pc,         \* where the custom-classifier cell stands
    mapped,     \* Series.apply: the outcomes collected so far
    err,        \* the exception the cell raised, or "none"
    classifier,      \* what the name `classifier` is bound to
    classifications, \* what the name `classifications` is bound to
    land_use,        \* L_4_1: the land-use layer
    flood_areas,     \* L_4_1: the flood layer
    intersection,    \* L_4_1: the overlay's result
    cell             \* L_4_1: the cell that runs next

\* The names of the classification notebook outside the custom-classifier cell.
nb_vars == <<classifier, classifications>>

\* The names of the overlay notebook.
overlay_vars == <<land_use, flood_areas, intersection, cell>>

vars == <<pop_1km, pc, mapped, err, nb_vars, overlay_vars>>

\* ------------------------------------------------------------------ values

\* A Python value held in a cell of the POP column: a number, the float NaN
\* (pandas' missing value) or None (a missing value of an object column).
Num(n) == [kind |-> "num", val |-> n]
NaN == [kind |-> "nan", val |-> 0]
None == [kind |-> "none", val |-> 0]

IsNum(v) == v.kind = "num"

\* The numbers a record may hold: negative, zero, the spec's examples and the
\* values on both sides of each break-point.
NumSamples == {-1, 0, 10, 49, 50, 249, 250, 1000}

POPValues == {Num(n) : n \in NumSamples} \cup {NaN, None}

\* Python's ordering comparisons. Comparing None with an int raises
\* TypeError; every ordering comparison with NaN is False.
Comparable(a, b) == a.kind # "none" /\ b.kind # "none"
py_lt(a, b) == IsNum(a) /\ IsNum(b) /\ a.val < b.val
py_le(a, b) == IsNum(a) /\ IsNum(b) /\ a.val <= b.val

\* ------------------------------------------------------------- classifier

Labels == {"Low", "Medium", "High"}

\* What a call that raised leaves in place of a return value.
TypeError == "TypeError"

\* Variants of classify_population, each with one plausible slip.

\* `POP <= 50` in the first branch: the break-point 50 falls in the lower bin.
classify_population_first_closed(POP) ==
    IF ~Comparable(POP, Num(50)) THEN TypeError
    ELSE IF py_le(POP, Num(50)) THEN "Low"
    ELSE IF py_le(Num(50), POP) /\ py_lt(POP, Num(250)) THEN "Medium"
    ELSE "High"

\* `50 <= POP <= 250` in the second branch: 250 falls in the middle bin.
classify_population_upper_closed(POP) ==
    IF ~Comparable(POP, Num(50)) THEN TypeError
    ELSE IF py_lt(POP, Num(50)) THEN "Low"
    ELSE IF py_le(Num(50), POP) /\ py_le(POP, Num(250)) THEN "Medium"
    ELSE "High"

\* `elif POP > 250` in place of the final else: 250 itself matches no branch
\* and the function falls off its end, returning None.
classify_population_no_else(POP) ==
    IF ~Comparable(POP, Num(50)) THEN TypeError
    ELSE IF py_lt(POP, Num(50)) THEN "Low"
    ELSE IF py_le(Num(50), POP) /\ py_lt(POP, Num(250)) THEN "Medium"
    ELSE IF py_lt(Num(250), POP) THEN "High"
    ELSE "None"

\* The labels of the first and the last branch exchanged.
classify_population_swapped(POP) ==
    IF ~Comparable(POP, Num(50)) THEN TypeError
    ELSE IF py_lt(POP, Num(50)) THEN "High"
    ELSE IF py_le(Num(50), POP) /\ py_lt(POP, Num(250)) THEN "Medium"
    ELSE "Low"

\* A range check in front of the cascade: a negative count is rejected.
classify_population_rejects_negative(POP) ==
    IF ~Comparable(POP, Num(50)) \/ py_lt(POP, Num(0)) THEN TypeError
    ELSE IF py_lt(POP, Num(50)) THEN "Low"
    ELSE IF py_le(Num(50), POP) /\ py_lt(POP, Num(250)) THEN "Medium"
    ELSE "High"

\* `50 < POP < 250` in the second branch: with the lower bound restated
\* strictly, 50 matches neither branch and falls to the else.
classify_population_strict_lower(POP) ==
    IF ~Comparable(POP, Num(50)) THEN TypeError
    ELSE IF py_lt(POP, Num(50)) THEN "Low"
    ELSE IF py_lt(Num(50), POP) /\ py_lt(POP, Num(250)) THEN "Medium"
    ELSE "High"

\* A classifier that keeps state between calls: it never returns a class
\* below the one it returned for the observation before.
classify_population_sticky(POP) ==
    LET fresh == IF ~Comparable(POP, Num(50)) THEN TypeError
                 ELSE IF py_lt(POP, Num(50)) THEN "Low"
                 ELSE IF py_le(Num(50), POP) /\ py_lt(POP, Num(250)) THEN "Medium"
                 ELSE "High"
        last == IF mapped = <<>> THEN "Low" ELSE mapped[Len(mapped)]
    IN IF fresh = TypeError THEN TypeError
       ELSE IF last = "High" THEN "High"
       ELSE IF last = "Medium" /\ fresh = "Low" THEN "Medium"
       ELSE fresh

\* def classify_population(POP): the if / elif / else cascade. The first
\* comparison raises for a value that cannot be compared with an int.
classify_population(POP) ==
    IF ~Comparable(POP, Num(50)) THEN TypeError
    ELSE IF py_lt(POP, Num(50)) THEN "Low"
    ELSE IF py_le(Num(50), POP) /\ py_lt(POP, Num(250)) THEN "Medium"
    ELSE "High"

\* The rule table of the spec's custom_classify (section 4.1): ordered
\* (threshold, label) pairs, a rule matching when value < threshold.
RuleTable ==
    <<[threshold |-> 50, label |-> "Low"], [threshold |-> 250, label |-> "Medium"]>>

\* custom_classify(value: real, predicate_table, default): the label of the
\* first rule, in table order, that matches; the default when none does.
RECURSIVE custom_classify(_, _, _)
custom_classify(value, predicate_table, default) ==
    IF predicate_table = <<>> THEN default
    ELSE IF py_lt(value, Num(Head(predicate_table).threshold))
         THEN Head(predicate_table).label
         ELSE custom_classify(value, Tail(predicate_table), default)

\* ------------------------------------------------------------ the notebook

\* All sequences over S of length at most n.
SeqsUpTo(S, n) == UNION {[1..k -> S] : k \in 0..n}

\* df[name] = values: the column is added, or replaced when df has it; every
\* other column is left as it is.
SetColumn(df, name, values) ==
    [c \in DOMAIN df \cup {name} |-> IF c = name THEN values ELSE df[c]]

\* The name `classifier` before any cell has bound it.
Unbound == [scheme |-> "unbound", k |-> 0, y |-> "none"]

\* No cell before the custom-classifier cell has bound a name.
NamesUnbound ==
    /\ classifier = Unbound
    /\ classifications = <<>>

\* A layer of the overlay notebook that has not been read.
NotLoaded == [crs |-> "not loaded"]

\* The overlay notebook is not open: it runs in a kernel of its own.
OverlayClosed ==
    /\ land_use = NotLoaded
    /\ flood_areas = NotLoaded
    /\ intersection = NotLoaded
    /\ cell = "closed"

\* The table as read from pop_1km_clipped.gpkg, before the cell runs.
Init ==
    /\ pop_1km \in {[POP |-> s] : s \in SeqsUpTo(POPValues, MaxRows)}
    /\ pc = "start"
    /\ mapped = <<>>
    /\ err = "none"
    /\ NamesUnbound
    /\ OverlayClosed

\* A variant of Collect that puts each outcome in front of those before it.
Collect_front(out, y) == <<y>> \o out

\* Series.apply collects the outcome of each call after those before it.
Collect(out, y) == Append(out, y)

\* The cell starts: classify_population is defined and apply begins.
StartApply ==
    /\ pc = "start"
    /\ pc' = "apply"
    /\ mapped' = <<>>
    /\ err' = "none"
    /\ UNCHANGED <<pop_1km, nb_vars, overlay_vars>>

\* apply calls classify_population on the next observation; an exception
\* propagates out of apply and out of the cell, and nothing is assigned.
ApplyStep ==
    /\ pc = "apply"
    /\ Len(mapped) < Len(pop_1km.POP)
    /\ LET y == classify_population(pop_1km.POP[Len(mapped) + 1])
       IN IF y = TypeError
          THEN /\ pc' = "failed"
               /\ err' = TypeError
               /\ mapped' = <<>>
          ELSE /\ pc' = "apply"
               /\ err' = err
               /\ mapped' = Collect(mapped, y)
    /\ UNCHANGED <<pop_1km, nb_vars, overlay_vars>>

\* A variant of AssignColumn that rebuilds the table from POP and the new
\* column alone (pop_1km = pop_1km[["POP"]].assign(POP_class=...)), losing
\* the columns derived before.
AssignColumn_rebuild ==
    /\ pc = "apply"
    /\ Len(mapped) = Len(pop_1km.POP)
    /\ pop_1km' = [POP |-> pop_1km.POP, POP_class |-> mapped]
    /\ pc' = "done"
    /\ UNCHANGED <<mapped, err, nb_vars, overlay_vars>>

\* pop_1km["POP_class"] = <the Series apply returned>
AssignColumn ==
    /\ pc = "apply"
    /\ Len(mapped) = Len(pop_1km.POP)
    /\ pop_1km' = SetColumn(pop_1km, "POP_class", mapped)
    /\ pc' = "done"
    /\ UNCHANGED <<mapped, err, nb_vars, overlay_vars>>

\* The cell is executed again (a notebook cell can be re-run at any time).
ReRun ==
    /\ pc \in {"done", "failed"}
    /\ pc' = "start"
    /\ mapped' = <<>>
    /\ err' = "none"
    /\ UNCHANGED <<pop_1km, nb_vars, overlay_vars>>

Next == StartApply \/ ApplyStep \/ AssignColumn \/ ReRun

Spec == Init /\ [][Next]_vars

\* ------------------------------------------- the notebook, cells in order

\* np.log1p of one element: ln(1 + n) for a number n, kept as the term
\* log1p(n) (it is -inf for n = -1); NaN for NaN.
log1p(v) == IF IsNum(v) THEN [kind |-> "log1p", val |-> v.val] ELSE v

\* The class id a mapclassify classifier gives observation v: computed
\* inside the library from the whole column, kept as the term
\* "class of v under <scheme> with k classes asked for".
ClassOf(c, v) == [scheme |-> c.scheme, k |-> c.k, of |-> v]

\* df[["POP"]].apply(c): the class id of every observation, in record order.
ApplyClassifier(c, y) == [i \in 1..Len(y) |-> ClassOf(c, y[i])]

\* A number the library's fitting surely accepts: finite and not missing.
Finite(v) == v.kind = "num" \/ (v.kind = "log1p" /\ v.val > -1)

\* mapclassify is given a column with a NaN or an infinity: whether it
\* raises or returns is decided inside the library, so both may happen.
MayRaise(y) == \E i \in 1..Len(y) : ~Finite(y[i])

\* A cell raises: the run stops in it and nothing is assigned.
Raises(e) ==
    /\ pc' = "failed"
    /\ err' = e
    /\ UNCHANGED <<pop_1km, mapped, nb_vars, overlay_vars>>

\* The table as read, with at least one record, before the first cell that
\* assigns anything.
NotebookInit ==
    /\ pop_1km \in {[POP |-> s] : s \in SeqsUpTo(POPValues, NotebookRows) \ {<<>>}}
    /\ pc = "cell_log"
    /\ mapped = <<>>
    /\ err = "none"
    /\ NamesUnbound
    /\ OverlayClosed

\* pop_1km['POP_log'] = np.log1p(pop_1km['POP']); np.log1p raises TypeError
\* on a column that holds None.
LogCell ==
    /\ pc = "cell_log"
    /\ IF \E i \in 1..Len(pop_1km.POP) : pop_1km.POP[i] = None
       THEN Raises(TypeError)
       ELSE /\ pop_1km' = SetColumn(pop_1km, "POP_log",
                               [i \in 1..Len(pop_1km.POP) |-> log1p(pop_1km.POP[i])])
            /\ pc' = "cell_natural_breaks"
            /\ UNCHANGED <<mapped, err, nb_vars, overlay_vars>>

\* classifier = mapclassify.NaturalBreaks(y=pop_1km["POP"], k=6)
BindNaturalBreaks ==
    /\ pc = "cell_natural_breaks"
    /\ \/ /\ classifier' = [scheme |-> "NaturalBreaks", k |-> 6, y |-> "POP"]
          /\ pc' = "cell_make"
          /\ UNCHANGED <<pop_1km, mapped, err, classifications, overlay_vars>>
       \/ /\ MayRaise(pop_1km.POP)
          /\ Raises("ValueError")

\* classifier = mapclassify.Quantiles.make(k=5): a callable that fits
\* Quantiles with k classes on the column it is applied to.
MakeQuantiles ==
    /\ pc = "cell_make"
    /\ classifier' = [scheme |-> "Quantiles", k |-> 5, y |-> "make"]
    /\ pc' = "cell_classify"
    /\ UNCHANGED <<pop_1km, mapped, err, classifications, overlay_vars>>

\* classifications = pop_1km[["POP"]].apply(classifier)
ClassifyCell ==
    /\ pc = "cell_classify"
    /\ \/ /\ classifications' = ApplyClassifier(classifier, pop_1km.POP)
          /\ pc' = "cell_nb_POP"
          /\ UNCHANGED <<pop_1km, mapped, err, classifier, overlay_vars>>
       \/ /\ MayRaise(pop_1km.POP)
          /\ Raises("ValueError")

\* pop_1km["nb_POP"] = pop_1km[["POP"]].apply(classifier)
NbPOPCell ==
    /\ pc = "cell_nb_POP"
    /\ \/ /\ pop_1km' = SetColumn(pop_1km, "nb_POP",
                                ApplyClassifier(classifier, pop_1km.POP))
          /\ pc' = "cell_natural_breaks_log"
          /\ UNCHANGED <<mapped, err, nb_vars, overlay_vars>>
       \/ /\ MayRaise(pop_1km.POP)
          /\ Raises("ValueError")

\* classifier = mapclassify.NaturalBreaks(y=pop_1km["POP_log"], k=5); the
\* custom-classifier cell is the next one that assigns anything.
BindNaturalBreaksLog ==
    /\ pc = "cell_natural_breaks_log"
    /\ \/ /\ classifier' = [scheme |-> "NaturalBreaks", k |-> 5, y |-> "POP_log"]
          /\ pc' = "start"
          /\ UNCHANGED <<pop_1km, mapped, err, classifications, overlay_vars>>
       \/ /\ MayRaise(pop_1km.POP_log)
          /\ Raises("ValueError")

NotebookNext ==
    \/ LogCell
    \/ BindNaturalBreaks
    \/ MakeQuantiles
    \/ ClassifyCell
    \/ NbPOPCell
    \/ BindNaturalBreaksLog
    \/ StartApply
    \/ ApplyStep
    \/ AssignColumn
    \/ ReRun

NotebookSpec == NotebookInit /\ [][NotebookNext]_vars

\* ----------------------------------------------------- the overlay notebook

\* The coordinate reference systems a shapefile may be read in: SWEREF99 TM
\* (the one the notebook reprojects to), RT90, SWEREF99 geographic, WGS 84,
\* web mercator; "none" is a layer read without one (a shapefile with no .prj).
CRSs == {"EPSG:3006", "EPSG:3021", "EPSG:4619", "EPSG:4326", "EPSG:3857", "none"}

\* The code cells of L_4_1 after the one that reads the layers, in order.
OverlayCells ==
    <<"check_crs", "reproject", "plot_layers", "head_flood_areas",
      "head_land_use", "overlay", "plot_intersection", "head_intersection",
      "to_file", "end">>

\* The cell after cell c.
NextCell(c) ==
    LET i == CHOOSE j \in 1..Len(OverlayCells) : OverlayCells[j] = c
    IN OverlayCells[i + 1]

\* The cells that print, plot or write, and bind no name.
DisplayCells ==
    {"check_crs", "plot_layers", "head_flood_areas", "head_land_use",
     "plot_intersection", "head_intersection", "to_file"}

\* gdf.to_crs(crs): the layer in the CRS asked for.
to_crs(gdf, crs) == [gdf EXCEPT !.crs = crs]

\* land_use and flood_areas as read from land_use.shp and flood_areas.shp.
OverlayInit ==
    /\ land_use \in {[crs |-> c] : c \in CRSs}
    /\ flood_areas \in {[crs |-> c] : c \in CRSs}
    /\ intersection = NotLoaded
    /\ cell = "check_crs"
    /\ pop_1km = [POP |-> <<>>]
    /\ pc = "closed"
    /\ mapped = <<>>
    /\ err = "none"
    /\ NamesUnbound

\* A cell that prints, plots or writes a layer.
DisplayCell ==
    /\ cell \in DisplayCells
    /\ cell' = NextCell(cell)
    /\ UNCHANGED <<land_use, flood_areas, intersection,
                   pop_1km, pc, mapped, err, nb_vars>>

\* land_use = land_use.to_crs("EPSG:3006"); to_crs raises ValueError on a
\* layer that has no CRS.
ReprojectCell ==
    /\ cell = "reproject"
    /\ IF land_use.crs = "none"
       THEN /\ cell' = "failed"
            /\ err' = "ValueError"
            /\ UNCHANGED land_use
       ELSE /\ land_use' = to_crs(land_use, "EPSG:3006")
            /\ cell' = NextCell(cell)
            /\ UNCHANGED err
    /\ UNCHANGED <<flood_areas, intersection, pop_1km, pc, mapped, nb_vars>>

\* intersection = flood_areas.overlay(land_use, how="intersection"): the
\* result is in the CRS of the layer overlay is called on.
OverlayCell ==
    /\ cell = "overlay"
    /\ intersection' = [crs |-> flood_areas.crs]
    /\ cell' = NextCell(cell)
    /\ UNCHANGED <<land_use, flood_areas, pop_1km, pc, mapped, err, nb_vars>>

OverlayNext == DisplayCell \/ ReprojectCell \/ OverlayCell

OverlaySpec == OverlayInit /\ [][OverlayNext]_vars

\* ----------------------------------------------------------------- claims

\* Every (observation, label) pair the program holds: the outcomes apply has
\* collected in the run under way and the rows of the stored POP_class column.
Classified ==
    {<<pop_1km.POP[k], mapped[k]>> : k \in 1..Len(mapped)}
        \cup (IF "POP_class" \in DOMAIN pop_1km
              THEN {<<pop_1km.POP[k], pop_1km.POP_class[k]>> :
                        k \in 1..Len(pop_1km.POP_class)}
              ELSE {})

\* The numeric observations among them.
ClassifiedNum == {p \in Classified : IsNum(p[1])}

\* The cell fails only on an observation that is not a number.
FailsOnlyOnNonNumeric ==
    pc = "failed" => \E k \in 1..Len(pop_1km.POP) : ~IsNum(pop_1km.POP[k])

\* Low < Medium < High; 0 for anything that is not a label.
Rank(label) ==
    IF label = "Low" THEN 1
    ELSE IF label = "Medium" THEN 2
    ELSE IF label = "High" THEN 3
    ELSE 0

\* The rows of a finished run: observation k and the label stored for it.
Stored(k, n, label) ==
    /\ k \in 1..Len(pop_1km.POP)
    /\ pop_1km.POP[k] = Num(n)
    /\ pop_1km.POP_class[k] = label

\* C1: with break-points 50 and 250, 10 is labelled Low, 50 Medium, 249 Medium
\* and 1000 High.
C1_Examples ==
    \A p \in Classified :
        /\ p[1] = Num(10) => p[2] = "Low"
        /\ p[1] = Num(50) => p[2] = "Medium"
        /\ p[1] = Num(249) => p[2] = "Medium"
        /\ p[1] = Num(1000) => p[2] = "High"

C1_Witness ==
    /\ pc = "done"
    /\ pop_1km.POP = <<Num(10), Num(50), Num(249), Num(1000)>>
    /\ pop_1km.POP_class = <<"Low", "Medium", "Medium", "High">>

\* C2: a value equal to a break-point goes to the upper bin (50 is Medium,
\* 250 is High): every bin is closed at its lower and open at its upper bound.
C2_Boundary ==
    \A p \in ClassifiedNum :
        /\ p[1].val = 50 => p[2] = "Medium"
        /\ p[1].val = 250 => p[2] = "High"
        /\ p[2] = "Low" => p[1].val < 50
        /\ p[2] = "Medium" => 50 <= p[1].val /\ p[1].val < 250
        /\ p[2] = "High" => 250 <= p[1].val

C2_Witness ==
    /\ pc = "done"
    /\ \E i, j, k, l \in 1..Len(pop_1km.POP) :
        /\ Stored(i, 49, "Low")
        /\ Stored(j, 50, "Medium")
        /\ Stored(k, 249, "Medium")
        /\ Stored(l, 250, "High")

\* C3: every numeric value, negative, zero, between the break-points or
\* large, gets exactly one label, one of Low, Medium, High; classifying a
\* number never ends without a label.
C3_Totality ==
    /\ \A p \in ClassifiedNum : p[2] \in Labels
    /\ FailsOnlyOnNonNumeric
    /\ (pc = "done" /\ \A k \in 1..Len(pop_1km.POP) : IsNum(pop_1km.POP[k]))
           => \A k \in 1..Len(pop_1km.POP) : pop_1km.POP_class[k] \in Labels

C3_Witness ==
    /\ pc = "done"
    /\ \E i, j, k, l \in 1..Len(pop_1km.POP) :
        /\ pop_1km.POP[i] = Num(-1) /\ pop_1km.POP[j] = Num(0)
        /\ pop_1km.POP[k] = Num(250) /\ pop_1km.POP[l] = Num(1000)
        /\ {pop_1km.POP_class[i], pop_1km.POP_class[j],
            pop_1km.POP_class[k], pop_1km.POP_class[l]} \subseteq Labels

\* C4: for numbers a < b the label of a is not above the label of b in the
\* order Low < Medium < High.
C4_Monotonic ==
    \A p, q \in ClassifiedNum :
        p[1].val < q[1].val => Rank(p[2]) <= Rank(q[2])

C4_Witness ==
    /\ pc = "done"
    /\ \E i, j, k \in 1..Len(pop_1km.POP) :
        /\ IsNum(pop_1km.POP[i]) /\ IsNum(pop_1km.POP[j]) /\ IsNum(pop_1km.POP[k])
        /\ pop_1km.POP[i].val < pop_1km.POP[j].val /\ pop_1km.POP[j].val < pop_1km.POP[k].val
        /\ Rank(pop_1km.POP_class[i]) = Rank(pop_1km.POP_class[j])
        /\ Rank(pop_1km.POP_class[j]) < Rank(pop_1km.POP_class[k])

\* C5: a value outside the break-point range is put in the nearest bin, not
\* rejected: below 50 (zero and negatives included) it is Low, at or above
\* 250, however large, it is High.
C5_Clamped ==
    /\ \A p \in ClassifiedNum :
        /\ p[1].val < 50 => p[2] = "Low"
        /\ p[1].val >= 250 => p[2] = "High"
    /\ FailsOnlyOnNonNumeric

C5_Witness ==
    /\ pc = "done"
    /\ \E i, j, k \in 1..Len(pop_1km.POP) :
        /\ Stored(i, -1, "Low")
        /\ Stored(j, 0, "Low")
        /\ Stored(k, 1000, "High")

\* C6: for every (real) value the ordered rule table [(<50, Low), (<250,
\* Medium)] with default High, evaluated first match first, gives the label
\* the if/elif/else cascade of classify_population gives.
C6_RuleTableEquivalent ==
    \A p \in ClassifiedNum : p[2] = custom_classify(p[1], RuleTable, "High")

C6_Witness ==
    /\ pc = "done"
    /\ \E i, j, k \in 1..Len(pop_1km.POP) :
        /\ Stored(i, 10, custom_classify(Num(10), RuleTable, "High"))
        /\ Stored(j, 50, custom_classify(Num(50), RuleTable, "High"))
        /\ Stored(k, 250, custom_classify(Num(250), RuleTable, "High"))

\* C8: an observation that is not a number (NaN, None) is reported as an
\* error and is never given a class label.
C8_NonNumericRejected ==
    /\ \A p \in Classified : IsNum(p[1])
    /\ pc = "done" => \A k \in 1..Len(pop_1km.POP) : IsNum(pop_1km.POP[k])

\* C9: applying the classifier gives a result as long as the input in which
\* position k holds the label of observation k, while apply runs and in the
\* column stored.
C9_OrderPreserved ==
    /\ Len(mapped) <= Len(pop_1km.POP)
    /\ \A k \in 1..Len(mapped) : mapped[k] = classify_population(pop_1km.POP[k])
    /\ "POP_class" \in DOMAIN pop_1km =>
        /\ Len(pop_1km.POP_class) = Len(pop_1km.POP)
        /\ \A k \in 1..Len(pop_1km.POP) :
               pop_1km.POP_class[k] = classify_population(pop_1km.POP[k])

C9_Witness ==
    /\ pc = "done"
    /\ Len(pop_1km.POP_class) = 3
    /\ Stored(1, 1000, "High")
    /\ Stored(2, 10, "Low")
    /\ Stored(3, 50, "Medium")

C14_NbPOPNaturalBreaks ==
    /\ pc = "cell_nb_POP" => classifier.scheme = "NaturalBreaks"
    /\ "nb_POP" \in DOMAIN pop_1km =>
           \A i \in 1..Len(pop_1km.nb_POP) :
               pop_1km.nb_POP[i].scheme = "NaturalBreaks"

\* C15: the classifier built with make() and applied to POP has 6 classes:
\* make() is given 6, and the classes it assigns are those of 6 classes.
C15_SixClasses ==
    /\ classifier.y = "make" => classifier.k = 6
    /\ \A i \in 1..Len(classifications) : classifications[i].k = 6

\* C16: when the overlay runs, and in its result, land_use and flood_areas
\* are in the same CRS, whatever CRS each was read in.
C16_SameCRSAtOverlay ==
    /\ cell = "overlay" => land_use.crs = flood_areas.crs
    /\ intersection # NotLoaded => land_use.crs = flood_areas.crs

\* A step taken while the custom-classifier cell runs leaves every column
\* but POP_class as it was, adds no other column, and leaves POP_class, once
\* there, with as many rows as the table.
CustomCellFrame ==
    pc \in {"start", "apply"} =>
        /\ DOMAIN pop_1km' \subseteq DOMAIN pop_1km \cup {"POP_class"}
        /\ \A c \in DOMAIN pop_1km \ {"POP_class"} :
               c \in DOMAIN pop_1km' /\ pop_1km'[c] = pop_1km[c]
        /\ "POP_class" \in DOMAIN pop_1km' =>
               Len(pop_1km'.POP_class) = Len(pop_1km.POP)

\* C17: applying the custom classifier only adds the POP_class column: POP,
\* POP_log and nb_POP keep their values and the number and order of records
\* stay the same.
C17_OnlyAddsPOPClass == [][CustomCellFrame]_vars

C17_Witness ==
    /\ pc = "done"
    /\ DOMAIN pop_1km = {"POP", "POP_log", "nb_POP", "POP_class"}
    /\ pop_1km.POP = <<Num(1000), Num(10), Num(50)>>
    /\ pop_1km.POP_log = <<log1p(Num(1000)), log1p(Num(10)), log1p(Num(50))>>
    /\ Len(pop_1km.nb_POP) = 3
    /\ pop_1km.POP_class = <<"High", "Low", "Medium">>

====
